---------------------------- MODULE Spec2Model ----------------------------
(* include-blob: the build-script pass (make_includable, src/src/lib.rs)   *)
(* and the compile-site macro (include_blob!, include-blob-macros), as one *)
(* state machine over a small file system, the build's output directory,   *)
(* the directives printed for Cargo and the target environment variables.  *)
EXTENDS Integers, Sequences, FiniteSets, TLC

(***************************************************************************)
(* Bounds of the model                                                     *)
(***************************************************************************)
\* largest modification time an external write may leave on a file
MaxMtime == 1
\* number of external modifications of resource files in one behaviour
MaxMods == 1
\* number of directories that may be open at once (the process's descriptor limit)
MaxDepth == 3
\* size of the hash space standing for DefaultHasher's 64-bit output
HashMod == 256

\* "{:016x}": the hash is printed as 16 zero-padded hexadecimal digits
HexWidth == 16

(***************************************************************************)
(* The file system: canonical paths are sequences of names.                *)
(***************************************************************************)
\* the directory the build script runs in (the package's source directory)
Cwd == <<"p">>

\* CARGO_MANIFEST_DIR, read by the macro
ManifestDir == <<"p">>

\* OUT_DIR, read by process_file
OutDir == <<"out">>

\* the shape of the file system; a symlink's target is a canonical path
Tree ==
    ( <<"p">>               :> [type |-> "dir", entries |-> {"d", "l", "x"}] ) @@
    ( <<"p", "d">>          :> [type |-> "dir", entries |-> {"a", "s"}] ) @@
    ( <<"p", "d", "a">>     :> [type |-> "file"] ) @@
    ( <<"p", "d", "s">>     :> [type |-> "dir", entries |-> {"b", "c"}] ) @@
    ( <<"p", "d", "s", "b">> :> [type |-> "file"] ) @@
    ( <<"p", "d", "s", "c">> :> [type |-> "file"] ) @@
    ( <<"p", "l">>          :> [type |-> "dir", entries |-> {"e", "up"}] ) @@
    ( <<"p", "l", "e">>     :> [type |-> "file"] ) @@
    ( <<"p", "l", "up">>    :> [type |-> "symlink", target |-> <<"p", "l">>] ) @@
    ( <<"p", "x">>          :> [type |-> "fifo"] )

Files == {p \in DOMAIN Tree : Tree[p].type = "file"}

Dirs == {p \in DOMAIN Tree : Tree[p].type = "dir"}

\* the files an external writer touches while the build runs
Mutable == {<<"p", "d", "a">>}

\* file contents (byte sequences) an external writer may leave
Contents == {<<72>>, <<73>>, <<72, 105>>}

InitialContent == <<72>>

\* the paths a build script passes to make_includable
Roots == {<<"d">>, <<"d", "a">>, <<"l">>, <<"x">>, <<"nope">>}

\* the literals a compile site passes to include_blob!
Literals == {<<"d", "a">>, <<"d", "s", "..", "a">>, <<"d">>, <<"nope">>}

Parent(p) == IF Len(p) <= 1 THEN p ELSE SubSeq(p, 1, Len(p) - 1)

IsPrefix(d, p) == Len(d) <= Len(p) /\ SubSeq(p, 1, Len(d)) = d

\* Path::canonicalize: resolve ".", ".." and symbolic links component by
\* component; fails when a component does not exist or is looked up in a
\* non-directory
RECURSIVE Resolve(_, _)
Resolve(cur, rest) ==
    IF rest = <<>> THEN [ok |-> TRUE, path |-> cur]
    ELSE LET c == Head(rest)
             child == Append(cur, c)
         IN  IF c = "." THEN Resolve(cur, Tail(rest))
             ELSE IF c = ".." THEN Resolve(Parent(cur), Tail(rest))
             ELSE IF cur \notin Dirs \/ c \notin Tree[cur].entries
                  THEN [ok |-> FALSE, path |-> <<>>]
             ELSE IF Tree[child].type = "symlink"
                  THEN IF Tree[child].target \in DOMAIN Tree
                       THEN Resolve(Tree[child].target, Tail(rest))
                       ELSE [ok |-> FALSE, path |-> <<>>]
             ELSE Resolve(child, Tail(rest))

Canonicalize(base, rel) == Resolve(base, rel)

\* a listing that leaves the subdirectories out
ReadDir_FilesOnly(dir) == {n \in Tree[dir].entries : Tree[Append(dir, n)].type = "file"}

\* fs::read_dir: the names of a directory's entries
ReadDir(dir) == Tree[dir].entries

(***************************************************************************)
(* SymbolNamer: DefaultHasher over the path, then the modification time,   *)
(* printed as "include_blob_" and 16 hexadecimal digits.                   *)
(***************************************************************************)
NameCode ==
    ( "p" :> 3 ) @@ ( "d" :> 5 ) @@ ( "a" :> 7 ) @@ ( "s" :> 11 ) @@
    ( "b" :> 13 ) @@ ( "c" :> 17 ) @@ ( "l" :> 19 ) @@ ( "e" :> 23 ) @@
    ( "up" :> 29 ) @@ ( "x" :> 31 )

\* Hasher::write: mix one more word into the running state
Mix(h, w) == (h * 33 + w) % HashMod

RECURSIVE HashPath(_, _)
HashPath(h, p) == IF p = <<>> THEN h ELSE HashPath(Mix(h, NameCode[Head(p)]), Tail(p))

\* path.hash(&mut hasher); mtime.hash(&mut hasher); hasher.finish()
Hash(path, mtime) == Mix(HashPath(0, path), mtime)

RECURSIVE HexDigits(_, _)
HexDigits(n, w) == IF w = 0 THEN <<>> ELSE Append(HexDigits(n \div 16, w - 1), n % 16)

\* format!("include_blob_{:016x}", h)
FormatName(h) == [prefix |-> "include_blob_", hex |-> HexDigits(h, HexWidth)]

\* process_file's unique_name
UniqueName(path, mtime) == FormatName(Hash(path, mtime))

\* the name with the modification time left out of the hash
MacroUniqueName_NoMtime(path, mtime) == FormatName(HashPath(0, path))

\* include_blob!'s unique_name
MacroUniqueName(path, mtime) == FormatName(Hash(path, mtime))

(***************************************************************************)
(* PlatformResolver: the CARGO_CFG_* variables of the build script.        *)
(***************************************************************************)
DeclaredOs == {"macos", "ios", "windows", "linux", "android"}

DeclaredArch ==
    {"x86", "x86_64", "arm", "aarch64", "riscv32", "riscv64",
     "mips", "mips64", "powerpc", "powerpc64"}

DeclaredEndian == {"little", "big"}

\* values Cargo may also hand a build script, which the crate does not list
OtherOs == {"freebsd", "none"}

OtherArch == {"wasm32"}

OtherEndian == {"middle"}

\* Cargo sets CARGO_CFG_UNIX / CARGO_CFG_WINDOWS from the target's family
UnixOs == {"macos", "ios", "linux", "android", "freebsd"}

CargoEnv(os, arch, endian) ==
    [TARGET_OS |-> os, TARGET_ARCH |-> arch, TARGET_ENDIAN |-> endian,
     UNIX |-> os \in UnixOs, WINDOWS |-> os = "windows"]

AllEnvs ==
    {CargoEnv(os, arch, endian) :
        os \in DeclaredOs \cup OtherOs,
        arch \in DeclaredArch \cup OtherArch,
        endian \in DeclaredEndian \cup OtherEndian}

\* the targets the build pass is run for
BuildEnvs ==
    {CargoEnv("linux", "x86_64", "little"), CargoEnv("macos", "aarch64", "little"),
     CargoEnv("freebsd", "x86_64", "little"), CargoEnv("none", "arm", "little")}

NoInfo == [binfmt |-> "", arch |-> "", endian |-> "", archive_kind |-> ""]

ArchOf ==
    ( "x86" :> "I386" ) @@ ( "x86_64" :> "X86_64" ) @@ ( "arm" :> "Arm" ) @@
    ( "aarch64" :> "Aarch64" ) @@ ( "riscv32" :> "Riscv32" ) @@
    ( "riscv64" :> "Riscv64" ) @@ ( "mips" :> "Mips" ) @@ ( "mips64" :> "Mips64" ) @@
    ( "powerpc" :> "PowerPc" ) @@ ( "powerpc64" :> "PowerPc64" )

\* the match on CARGO_CFG_TARGET_OS
OsFormats(os) ==
    IF os \in {"macos", "ios"} THEN [ok |-> TRUE, binfmt |-> "MachO", archive_kind |-> "Darwin64"]
    ELSE IF os = "windows" THEN [ok |-> TRUE, binfmt |-> "Coff", archive_kind |-> "Gnu"]
    ELSE IF os \in {"linux", "android"} THEN [ok |-> TRUE, binfmt |-> "Elf", archive_kind |-> "Gnu"]
    ELSE [ok |-> FALSE, binfmt |-> "", archive_kind |-> ""]

\* the resolution with a catch-all arm that falls back to ELF in a GNU archive
FromBuildScriptVars_DefaultOs(e) ==
    LET f == IF OsFormats(e.TARGET_OS).ok THEN OsFormats(e.TARGET_OS)
             ELSE [ok |-> TRUE, binfmt |-> "Elf", archive_kind |-> "Gnu"]
    IN  IF e.TARGET_ARCH \notin DOMAIN ArchOf
        THEN [ok |-> FALSE, err |-> "unhandled architecture", info |-> NoInfo]
        ELSE IF e.TARGET_ENDIAN \notin {"little", "big"}
        THEN [ok |-> FALSE, err |-> "unhandled endianness", info |-> NoInfo]
        ELSE [ok |-> TRUE, err |-> "",
              info |-> [binfmt |-> f.binfmt, arch |-> ArchOf[e.TARGET_ARCH],
                        endian |-> IF e.TARGET_ENDIAN = "little" THEN "Little" ELSE "Big",
                        archive_kind |-> f.archive_kind]]

\* TargetInfo::from_build_script_vars: panics on the first unhandled value
FromBuildScriptVars(e) ==
    LET f == OsFormats(e.TARGET_OS)
    IN  IF ~f.ok
        THEN [ok |-> FALSE, err |-> "unhandled operating system", info |-> NoInfo]
        ELSE IF e.TARGET_ARCH \notin DOMAIN ArchOf
        THEN [ok |-> FALSE, err |-> "unhandled architecture", info |-> NoInfo]
        ELSE IF e.TARGET_ENDIAN \notin {"little", "big"}
        THEN [ok |-> FALSE, err |-> "unhandled endianness", info |-> NoInfo]
        ELSE [ok |-> TRUE, err |-> "",
              info |-> [binfmt |-> f.binfmt, arch |-> ArchOf[e.TARGET_ARCH],
                        endian |-> IF e.TARGET_ENDIAN = "little" THEN "Little" ELSE "Big",
                        archive_kind |-> f.archive_kind]]

\* lib_prefix_and_suffix
LibPrefixAndSuffix(e) ==
    IF e.UNIX THEN [ok |-> TRUE, pre |-> "lib", post |-> ".a"]
    ELSE IF e.WINDOWS THEN [ok |-> TRUE, pre |-> "", post |-> ".lib"]
    ELSE [ok |-> FALSE, pre |-> "", post |-> ""]

\* the platform resolution as process_file performs it: the file-name
\* convention first, then the target information
PlatformResolve(e) ==
    LET ps == LibPrefixAndSuffix(e)
        ti == FromBuildScriptVars(e)
    IN  IF ~ps.ok
        THEN [done |-> TRUE, ok |-> FALSE, err |-> "target platform not supported",
              info |-> NoInfo, pre |-> "", post |-> ""]
        ELSE IF ~ti.ok
        THEN [done |-> TRUE, ok |-> FALSE, err |-> ti.err,
              info |-> NoInfo, pre |-> "", post |-> ""]
        ELSE [done |-> TRUE, ok |-> TRUE, err |-> "",
              info |-> ti.info, pre |-> ps.pre, post |-> ps.post]

NoRes == [done |-> FALSE, ok |-> FALSE, err |-> "", info |-> NoInfo, pre |-> "", post |-> ""]

(***************************************************************************)
(* State                                                                   *)
(***************************************************************************)
VARIABLES
    env,        \* the CARGO_CFG_* variables of this build
    fs,         \* resource files: content, modification time, version stamp
    mods,       \* external modifications so far
    root,       \* the path make_includable was called with (<<>> before the call)
    pc,         \* where the build pass stands
    arg,        \* the path make_includable_impl is entered with
    stack,      \* the open directory iterations, innermost last
    loc,        \* process_file's locals
    archives,   \* the files in OUT_DIR
    prov,       \* for each file in OUT_DIR, the file state process_file saw
    directives, \* the cargo: lines printed so far
    commands,   \* the external commands run so far
    hashed,     \* the (path, mtime) pairs process_file has hashed
    err,        \* the fatal error the pass ended with
    exp,        \* the last expansion of include_blob!
    res         \* the platform resolution, when it is run on its own

vars ==
    <<env, fs, mods, root, pc, arg, stack, loc, archives, prov, directives,
      commands, hashed, err, exp, res>>

NoName == [prefix |-> "", hex |-> <<>>]

NoOut == [dir |-> <<>>, pre |-> "", name |-> NoName, post |-> ""]

NoLoc ==
    [path |-> <<>>, mtime |-> 0, statVer |-> 0, content |-> <<>>, readVer |-> 0,
     name |-> NoName, out |-> NoOut]

NoArg == [base |-> <<>>, rel |-> <<>>]

NoErr == [kind |-> "", depth |-> 0]

NoExp ==
    [done |-> FALSE, ok |-> FALSE, err |-> "", lit |-> <<>>, link_name |-> NoName,
     len |-> 0, path |-> <<>>, mtime |-> 0, ver |-> 0, content |-> <<>>]

\* File::create: an empty file
EmptyFile == [complete |-> FALSE, kind |-> "", members |-> <<>>]

\* the object with the symbol's size one past the data
BuildObject_SizeOffByOne(info, name, content) ==
    [binfmt |-> info.binfmt, arch |-> info.arch, endian |-> info.endian,
     section |-> [name |-> name, segment |-> "ReadOnlyData", data |-> content, align |-> 1],
     symbol |-> [name |-> name, value |-> 0, size |-> Len(content) + 1, kind |-> "Data",
                 scope |-> "Linkage", weak |-> FALSE, section |-> name]]

\* Object::new, add_subsection, add_symbol, add_symbol_data
BuildObject(info, name, content) ==
    [binfmt |-> info.binfmt, arch |-> info.arch, endian |-> info.endian,
     section |-> [name |-> name, segment |-> "ReadOnlyData", data |-> content, align |-> 1],
     symbol |-> [name |-> name, value |-> 0, size |-> Len(content), kind |-> "Data",
                 scope |-> "Linkage", weak |-> FALSE, section |-> name]]

\* write_archive: one member, fixed metadata, the target's archive kind
WriteArchive(info, member_name, obj) ==
    [complete |-> TRUE, kind |-> info.archive_kind,
     members |-> << [name |-> member_name, mtime |-> 0, uid |-> 0, gid |-> 0,
                     perms |-> 420, buf |-> obj] >>]

Init ==
    /\ env \in BuildEnvs
    /\ fs = [f \in Files |-> [content |-> InitialContent, mtime |-> 0, ver |-> 0]]
    /\ mods = 0
    /\ root = <<>>
    /\ pc = "idle"
    /\ arg = NoArg
    /\ stack = <<>>
    /\ loc = NoLoc
    /\ archives = <<>>
    /\ prov = <<>>
    /\ directives = <<>>
    /\ commands = <<>>
    /\ hashed = {}
    /\ err = NoErr
    /\ exp = NoExp
    /\ res = NoRes

(***************************************************************************)
(* The build pass                                                          *)
(***************************************************************************)
\* make_includable(path): the build script's call
Call(r) ==
    /\ pc = "idle"
    /\ root' = r
    /\ arg' = [base |-> Cwd, rel |-> r]
    /\ pc' = "enter"
    /\ UNCHANGED <<env, fs, mods, stack, loc, archives, prov, directives, commands,
                   hashed, err, exp, res>>

\* a path that cannot be canonicalized panics, a file created first
OnCanonicalizeFail_CreatesFirst ==
    /\ pc' = "panic"
    /\ err' = [kind |-> "NotFound", depth |-> Len(stack)]
    /\ archives' = (NoOut :> EmptyFile) @@ archives
    /\ UNCHANGED <<stack, loc, prov, directives>>

\* path.canonicalize().unwrap_or_else(|_| panic!("could not find file ..."))
OnCanonicalizeFail ==
    /\ pc' = "panic"
    /\ err' = [kind |-> "NotFound", depth |-> Len(stack)]
    /\ UNCHANGED <<stack, loc, archives, prov, directives>>

\* make_includable_impl up to its dispatch on the entry's type
Enter ==
    /\ pc = "enter"
    /\ arg' = NoArg
    /\ LET c == Canonicalize(arg.base, arg.rel)
       IN  IF ~c.ok THEN OnCanonicalizeFail
           ELSE /\ directives' =
                       Append(directives, [kind |-> "rerun-if-changed", value |-> c.path])
                /\ IF c.path \in Dirs
                   THEN IF Len(stack) >= MaxDepth
                        THEN /\ pc' = "panic"
                             /\ err' = [kind |-> "Io", depth |-> Len(stack)]
                             /\ UNCHANGED <<stack, loc>>
                        ELSE /\ stack' = Append(stack, [dir |-> c.path, todo |-> ReadDir(c.path)])
                             /\ pc' = "loop"
                             /\ UNCHANGED <<loc, err>>
                   ELSE IF c.path \in Files
                   THEN /\ loc' = [NoLoc EXCEPT !.path = c.path,
                                                !.mtime = fs[c.path].mtime,
                                                !.statVer = fs[c.path].ver]
                        /\ pc' = "read"
                        /\ UNCHANGED <<stack, err>>
                   ELSE /\ pc' = "panic"
                        /\ err' = [kind |-> "UnsupportedType", depth |-> Len(stack)]
                        /\ UNCHANGED <<stack, loc>>
                /\ UNCHANGED <<archives, prov>>
    /\ UNCHANGED <<env, fs, mods, root, commands, hashed, exp, res>>

\* for entry in fs::read_dir(&path)? { make_includable_impl(&entry.path())? }
Loop ==
    /\ pc = "loop"
    /\ LET top == stack[Len(stack)]
           rest == SubSeq(stack, 1, Len(stack) - 1)
       IN  IF top.todo = {}
           THEN /\ stack' = rest
                /\ pc' = IF rest = <<>> THEN "ok" ELSE "loop"
                /\ arg' = arg
           ELSE \E n \in top.todo :
                  /\ stack' = Append(rest, [top EXCEPT !.todo = top.todo \ {n}])
                  /\ arg' = [base |-> top.dir, rel |-> <<n>>]
                  /\ pc' = "enter"
    /\ UNCHANGED <<env, fs, mods, root, loc, archives, prov, directives, commands,
                   hashed, err, exp, res>>

\* process_file: the unique name from the metadata taken earlier, then fs::read
Read ==
    /\ pc = "read"
    /\ loc' = [loc EXCEPT !.name = UniqueName(loc.path, loc.mtime),
                          !.content = fs[loc.path].content,
                          !.readVer = fs[loc.path].ver]
    /\ hashed' = hashed \cup {<<loc.path, loc.mtime>>}
    /\ pc' = "create"
    /\ UNCHANGED <<env, fs, mods, root, arg, stack, archives, prov, directives,
                   commands, err, exp, res>>

\* lib_prefix_and_suffix, OUT_DIR, File::create
Create ==
    /\ pc = "create"
    /\ LET ps == LibPrefixAndSuffix(env)
           out == [dir |-> OutDir, pre |-> ps.pre, name |-> loc.name, post |-> ps.post]
       IN  IF ~ps.ok
           THEN /\ pc' = "panic"
                /\ err' = [kind |-> "Config", depth |-> Len(stack)]
                /\ UNCHANGED <<loc, archives, prov>>
           ELSE /\ loc' = [loc EXCEPT !.out = out]
                /\ archives' = (out :> EmptyFile) @@ archives
                /\ prov' = (out :> [path |-> loc.path, mtime |-> loc.mtime,
                                    statVer |-> loc.statVer, readVer |-> loc.readVer]) @@ prov
                /\ pc' = "write"
                /\ err' = err
    /\ UNCHANGED <<env, fs, mods, root, arg, stack, directives, commands, hashed, exp, res>>

\* TargetInfo::from_build_script_vars, the object, write_archive
Write ==
    /\ pc = "write"
    /\ LET ti == FromBuildScriptVars(env)
           obj == BuildObject(ti.info, loc.name, loc.content)
           member == [stem |-> loc.name, ext |-> ".o"]
       IN  IF ~ti.ok
           THEN /\ pc' = "panic"
                /\ err' = [kind |-> "Config", depth |-> Len(stack)]
                /\ UNCHANGED archives
           ELSE /\ archives' = [archives EXCEPT ![loc.out] = WriteArchive(ti.info, member, obj)]
                /\ pc' = "emit"
                /\ err' = err
    /\ UNCHANGED <<env, fs, mods, root, arg, stack, loc, prov, directives, commands,
                   hashed, exp, res>>

\* the two cargo: lines, then Ok(())
Emit ==
    /\ pc = "emit"
    /\ directives' = directives \o
           << [kind |-> "rustc-link-lib=static", value |-> loc.name],
              [kind |-> "rustc-link-search=native", value |-> OutDir] >>
    /\ loc' = NoLoc
    /\ pc' = IF stack = <<>> THEN "ok" ELSE "loop"
    /\ UNCHANGED <<env, fs, mods, root, arg, stack, archives, prov, commands, hashed,
                   err, exp, res>>

(***************************************************************************)
(* The environment and the compile site                                    *)
(***************************************************************************)
\* another process rewrites a resource file; the clock may not have advanced
Modify(f, c, m) ==
    /\ mods < MaxMods
    /\ m >= fs[f].mtime
    /\ mods' = mods + 1
    /\ fs' = [fs EXCEPT ![f] = [content |-> c, mtime |-> m, ver |-> mods + 1]]
    /\ UNCHANGED <<env, root, pc, arg, stack, loc, archives, prov, directives,
                   commands, hashed, err, exp, res>>

\* include_blob!(lit)
Expand(lit) ==
    /\ LET c == Canonicalize(ManifestDir, lit)
       IN  exp' =
             IF ~c.ok THEN [NoExp EXCEPT !.done = TRUE, !.err = "NotFound", !.lit = lit]
             ELSE IF c.path \notin Files
             THEN [NoExp EXCEPT !.done = TRUE, !.err = "NotAFile", !.lit = lit]
             ELSE [done |-> TRUE, ok |-> TRUE, err |-> "", lit |-> lit,
                   link_name |-> MacroUniqueName(c.path, fs[c.path].mtime),
                   len |-> Len(fs[c.path].content),
                   path |-> c.path, mtime |-> fs[c.path].mtime, ver |-> fs[c.path].ver,
                   content |-> fs[c.path].content]
    /\ exp' # exp
    /\ UNCHANGED <<env, fs, mods, root, pc, arg, stack, loc, archives, prov, directives,
                   commands, hashed, err, res>>

Next ==
    \/ \E r \in Roots : Call(r)
    \/ Enter
    \/ Loop
    \/ Read
    \/ Create
    \/ Write
    \/ Emit
    \/ \E f \in Mutable, c \in Contents, m \in 0..MaxMtime : Modify(f, c, m)
    \/ \E lit \in Literals : Expand(lit)

Spec == Init /\ [][Next]_vars

(***************************************************************************)
(* The platform resolution on its own, over every target description       *)
(***************************************************************************)
InitPlatform ==
    /\ env \in AllEnvs
    /\ fs = [f \in Files |-> [content |-> InitialContent, mtime |-> 0, ver |-> 0]]
    /\ mods = 0
    /\ root = <<>>
    /\ pc = "idle"
    /\ arg = NoArg
    /\ stack = <<>>
    /\ loc = NoLoc
    /\ archives = <<>>
    /\ prov = <<>>
    /\ directives = <<>>
    /\ commands = <<>>
    /\ hashed = {}
    /\ err = NoErr
    /\ exp = NoExp
    /\ res = NoRes

ResolvePlatform ==
    /\ ~res.done
    /\ res' = PlatformResolve(env)
    /\ UNCHANGED <<env, fs, mods, root, pc, arg, stack, loc, archives, prov, directives,
                   commands, hashed, err, exp>>

NextPlatform == ResolvePlatform

SpecPlatform == InitPlatform /\ [][NextPlatform]_vars

(***************************************************************************)
(* Properties                                                              *)
(***************************************************************************)
\* the object inside a completely written archive
ObjectOf(o) == archives[o].members[1].buf

Complete == {o \in DOMAIN archives : archives[o].complete}

HasDirective(kind, value) ==
    \E i \in 1..Len(directives) :
        directives[i].kind = kind /\ directives[i].value = value

\* C1: when the macro expands on a file whose canonical path and modification
\* time are those process_file saw, the link_name it emits is the symbol the
\* archive exports, whatever relative path either stage was given.
C1_SameIdentitySameName ==
    \A o \in Complete :
        (exp.ok /\ exp.path = prov[o].path /\ exp.mtime = prov[o].mtime)
            => /\ exp.link_name = ObjectOf(o).symbol.name
               /\ exp.link_name = o.name

\* C1 witness: the build was given the directory, the macro a different
\* spelling of the file's path, after the file was rewritten, and the names agree
C1_Witness ==
    \E o \in Complete :
        /\ exp.ok /\ exp.path = prov[o].path /\ exp.mtime = prov[o].mtime
        /\ root = <<"d">> /\ exp.lit = <<"d", "s", "..", "a">>
        /\ exp.mtime = 1
        /\ exp.link_name = ObjectOf(o).symbol.name

\* C2: when the file is unchanged from process_file's metadata call through
\* the macro's expansion, the macro's array length, the symbol's size and the
\* section data are the file's length and content, and the archive's one
\* symbol is the one the macro links to.
C2_RoundTrip ==
    \A o \in Complete :
        (exp.ok /\ exp.path = prov[o].path
              /\ prov[o].statVer = exp.ver /\ prov[o].readVer = exp.ver)
            => /\ Len(archives[o].members) = 1
               /\ exp.link_name = ObjectOf(o).symbol.name
               /\ exp.len = Len(exp.content)
               /\ ObjectOf(o).symbol.size = exp.len
               /\ ObjectOf(o).symbol.value = 0
               /\ ObjectOf(o).section.data = exp.content
               /\ Len(ObjectOf(o).section.data) = exp.len

\* C2 witness: a two-byte file embedded and referenced, unchanged in between
C2_Witness ==
    \E o \in Complete :
        /\ exp.ok /\ exp.path = prov[o].path
        /\ prov[o].statVer = exp.ver /\ prov[o].readVer = exp.ver
        /\ exp.len = 2 /\ ObjectOf(o).section.data = <<72, 105>>

\* C3: after a fatal error every file in OUT_DIR is a completely written
\* archive whose link directives were printed, and every printed link
\* directive names a completely written archive.
C3_NoPartialState ==
    pc = "panic" =>
        /\ \A o \in DOMAIN archives :
               /\ archives[o].complete
               /\ HasDirective("rustc-link-lib=static", o.name)
               /\ HasDirective("rustc-link-search=native", o.dir)
        /\ \A i \in 1..Len(directives) :
               directives[i].kind = "rustc-link-lib=static"
                   => \E o \in Complete : o.name = directives[i].value

DarwinStyle == {"Darwin", "Darwin64"}

GnuStyle == {"Gnu", "Gnu64"}

\* C4: macos/ios resolve to Mach-O and a Darwin-style archive; windows to
\* COFF, a COFF archive, no prefix and ".lib"; linux/android to ELF, a
\* GNU-style archive, "lib" and ".a".
C4_OsConventions ==
    (res.done /\ res.ok) =>
        /\ env.TARGET_OS \in {"macos", "ios"}
               => res.info.binfmt = "MachO" /\ res.info.archive_kind \in DarwinStyle
        /\ env.TARGET_OS = "windows"
               => /\ res.info.binfmt = "Coff" /\ res.info.archive_kind = "Coff"
                  /\ res.pre = "" /\ res.post = ".lib"
        /\ env.TARGET_OS \in {"linux", "android"}
               => /\ res.info.binfmt = "Elf" /\ res.info.archive_kind \in GnuStyle
                  /\ res.pre = "lib" /\ res.post = ".a"

Declared(e) ==
    /\ e.TARGET_OS \in DeclaredOs
    /\ e.TARGET_ARCH \in DeclaredArch
    /\ e.TARGET_ENDIAN \in DeclaredEndian

\* C5: the resolution succeeds exactly on the declared (OS, architecture,
\* endianness) triples; on any other it ends in an error and yields no
\* format, architecture, endianness, archive kind or file-name convention.
C5_PlatformCoverage ==
    res.done =>
        /\ res.ok <=> Declared(env)
        /\ res.ok => /\ res.info.binfmt \in {"MachO", "Coff", "Elf"}
                     /\ res.info.arch = ArchOf[env.TARGET_ARCH]
                     /\ res.info.endian \in {"Little", "Big"}
                     /\ (res.info.endian = "Little") <=> (env.TARGET_ENDIAN = "little")
        /\ ~res.ok => res.err # "" /\ res.info = NoInfo /\ res.pre = "" /\ res.post = ""

\* C5 witness: an OS that has the unix file-name convention but is not
\* declared is refused
C5_Witness ==
    /\ res.done /\ ~res.ok
    /\ env.TARGET_OS = "freebsd" /\ env.TARGET_ARCH = "x86_64" /\ env.TARGET_ENDIAN = "little"
    /\ res.err = "unhandled operating system"

\* C6: on an Apple target with a Darwin-style archive, the link directives of
\* an archive are printed only after ranlib was run on that archive.
C6_RanlibBeforeDirectives ==
    \A o \in Complete :
        (/\ env.TARGET_OS \in {"macos", "ios"}
         /\ archives[o].kind \in DarwinStyle
         /\ HasDirective("rustc-link-lib=static", o.name))
            => \E j \in 1..Len(commands) :
                   commands[j].program = "ranlib" /\ commands[j].file = o

PlainFilesUnder(d) == {p \in Files : IsPrefix(d, p)}

CollisionFree(S) ==
    \A x \in S, y \in S : x # y => Hash(x[1], x[2]) # Hash(y[1], y[2])

\* C7: when make_includable returns from a directory holding k plain files,
\* and the hash did not collide on the (path, mtime) pairs it was given,
\* OUT_DIR holds exactly k archives, all complete, one per plain file, with
\* k distinct symbols.
C7_DirectoryExpansion ==
    (pc = "ok" /\ Canonicalize(Cwd, root).path \in Dirs /\ CollisionFree(hashed)) =>
        LET under == PlainFilesUnder(Canonicalize(Cwd, root).path)
            k == Cardinality(under)
        IN  /\ Cardinality(DOMAIN archives) = k
            /\ Complete = DOMAIN archives
            /\ {prov[o].path : o \in DOMAIN archives} = under
            /\ Cardinality({ObjectOf(o).symbol.name : o \in Complete}) = k

\* C7 witness: the directory with three files on two levels was expanded
C7_Witness ==
    /\ pc = "ok" /\ root = <<"d">> /\ CollisionFree(hashed)
    /\ Cardinality(PlainFilesUnder(<<"p", "d">>)) = 3
    /\ Cardinality({ObjectOf(o).symbol.name : o \in Complete}) = 3

\* C8: when the path make_includable is called with does not exist, the call
\* ends in a fatal error with no file in OUT_DIR and no directive printed.
C8_MissingPathNoArchive ==
    (pc = "panic" /\ err.kind = "NotFound" /\ err.depth = 0) =>
        DOMAIN archives = {} /\ directives = <<>>

\* C8 witness: the call on the missing path has ended
C8_Witness ==
    pc = "panic" /\ err.kind = "NotFound" /\ root = <<"nope">> /\ ~Canonicalize(Cwd, root).ok

\* C9: whenever the macro's link_name is the symbol of a written archive,
\* the array length the macro declared is that symbol's size.
C9_MatchingNamesMatchingSizes ==
    \A o \in Complete :
        (exp.ok /\ exp.link_name = ObjectOf(o).symbol.name)
            => exp.len = ObjectOf(o).symbol.size

\* C10: the expansion never enters a canonical directory it is still
\* expanding (which on a finite tree bounds its depth and makes it end).
C10_NoDirectoryRevisited ==
    \A i \in 1..Len(stack), j \in 1..Len(stack) :
        i # j => stack[i].dir # stack[j].dir

=============================================================================
